---- MODULE Spec2Model ----
(***************************************************************************)
(* Mind-map application: the tree sanitizer (validateAndCleanMindMap), the *)
(* archive store over localStorage (getArchivedMindMaps, saveMindMap,      *)
(* deleteMindMap), and the App / MindMap component state machine with the  *)
(* focus effect.                                                           *)
(*                                                                         *)
(* Three specifications share the module:                                  *)
(*   SpecSan   the sanitizer applied to bounded untrusted payloads         *)
(*   SpecArch  the archive store driven by arbitrary calls and clocks      *)
(*   Spec      the App component with its asynchronous handlers            *)
(***************************************************************************)
EXTENDS Integers, Sequences, FiniteSets, TLC

VARIABLES
    \* ---- sanitizer (SpecSan)
    raw,          \* the untrusted value handed to validateAndCleanMindMap
    cleaned,      \* its result (Null when rejected)
    recleaned,    \* the result of sanitizing `cleaned` again
    sanPc,        \* "input" | "cleaned" | "recleaned"
    \* ---- archive store (SpecArch, Spec)
    blob,         \* localStorage value under ARCHIVE_KEY
    denied,       \* TRUE when every localStorage access throws
    lastOp,       \* "none" | "list" | "save" | "delete": the last store call
    lastArg,      \* the entry built by the last save / the id of the last delete
    lastOk,       \* whether the last call's setItem succeeded
    lastRet,      \* the list the last call returned
    preList,      \* getArchivedMindMaps() just before the last call
    preBlob,      \* blob just before the last call
    \* ---- App and MindMap components (Spec)
    mindMapData,  \* App state: the displayed tree instance, or NoMap
    selectedNode, \* App state: NoNode or a node <<instance, index>>
    isFocusMode,  \* App state
    status,       \* App state: "idle" | "loading" | "success" | "error"
    archives,     \* App state: in-memory archive list
    archInst,     \* per entry of archives: the instance its mindMapData object
                  \* is, 0 for an object nothing but the list refers to
    mounted,      \* FALSE until App's mount effect has run
    viewport,     \* "zero" | "sized": the svg's bounding rectangle
    genPc,        \* generateMindMap: "none" | "await" | "chat"
    genData,      \* the tree instance generateMindMap holds while suspended
    genFile,      \* the file name generateMindMap was called with
    loadPc,       \* handleLoadFromArchive: "none" | "chat"
    drawn,        \* MindMap DOM: the tree instance the layout effect drew, or NoMap
    nodeOpacity,  \* MindMap DOM: opacity attribute of each drawn node group
    edgeOpacity,  \* MindMap DOM: stroke-opacity of each drawn link
    nodeRadius,   \* MindMap DOM: circle radius of each drawn node
    layoutPass    \* what the layout effect did at the last commit: "none" (not
                  \* run) | "skipped" (returned at the size guard) | "ran"

sanVars  == <<raw, cleaned, recleaned, sanPc>>
archVars == <<blob, denied, lastOp, lastArg, lastOk, lastRet, preList, preBlob>>
appVars  == <<mindMapData, selectedNode, isFocusMode, status, archives, archInst,
              mounted, viewport, genPc, genData, genFile, loadPc,
              drawn, nodeOpacity, edgeOpacity, nodeRadius, layoutPass>>
vars     == <<sanVars, archVars, appVars>>

(***************************************************************************)
(* Bounds                                                                  *)
(***************************************************************************)
MaxNodes == 3
DepthCeiling == 10

(***************************************************************************)
(* JavaScript values.  A property value is [t, v]: t is its type tag and v *)
(* a sequence of character codes (a string) or a one-element sequence (a   *)
(* number); "absent" is undefined.  A node is a record of kind "null",     *)
(* "prim" (a non-object primitive) or "obj"; its children property is      *)
(* [t, v] with t = "absent", "other" (present, not an array) or "arr".     *)
(***************************************************************************)
TitleMax == 200

Min(a, b) == IF a < b THEN a ELSE b

AbsentF == [t |-> "absent", v |-> <<>>]
Str(s) == [t |-> "str", v |-> s]
Num(n) == [t |-> "num", v |-> <<n>>]
AbsentC == [t |-> "absent", v |-> <<>>]
OtherC == [t |-> "other", v |-> <<>>]
Arr(s) == [t |-> "arr", v |-> s]

Null ==
    [kind |-> "null", title |-> AbsentF, summary |-> AbsentF,
     sourceText |-> AbsentF, children |-> AbsentC]
Prim ==
    [kind |-> "prim", title |-> AbsentF, summary |-> AbsentF,
     sourceText |-> AbsentF, children |-> AbsentC]
Obj(ti, su, so, ch) ==
    [kind |-> "obj", title |-> ti, summary |-> su, sourceText |-> so,
     children |-> ch]

\* typeof x === 'string'
IsString(f) == f.t = "str"
\* JavaScript truthiness of a property value
Truthy(f) ==
    CASE f.t = "absent" -> FALSE
      [] f.t = "str" -> Len(f.v) > 0
      [] f.t = "num" -> f.v # <<0>>
      [] OTHER -> TRUE
\* String.prototype.substring(0, n)
Substring0(s, n) == SubSeq(s, 1, Min(Len(s), n))

NA == Str(<<78, 47, 65>>)

\* map and filter where one invalid child drops its siblings with it
MapKeepAllOrNone(xs, img) ==
    IF \E i \in 1..Len(xs) : img[xs[i]] = Null THEN <<>>
    ELSE [i \in 1..Len(xs) |-> img[xs[i]]]

RECURSIVE MapKeep(_, _)
\* xs.map(f).filter(x => x !== null), f given as the function image img
MapKeep(xs, img) ==
    IF xs = <<>> THEN <<>>
    ELSE LET h == img[Head(xs)]
         IN (IF h = Null THEN <<>> ELSE <<h>>) \o MapKeep(Tail(xs), img)

RECURSIVE validateIgnoringSummary(_)
\* the sanitizer without the check of summary
validateIgnoringSummary(node) ==
    IF node.kind = "null" \/ ~IsString(node.title)
    THEN Null
    ELSE LET validNode ==
                 Obj(Str(Substring0(node.title.v, TitleMax)),
                     node.summary,
                     IF Truthy(node.sourceText) THEN node.sourceText ELSE NA,
                     AbsentC)
         IN IF node.children.t = "arr" /\ Len(node.children.v) > 0
            THEN LET kids == node.children.v
                     img == [k \in {kids[i] : i \in 1..Len(kids)} |->
                                validateIgnoringSummary(k)]
                 IN [validNode EXCEPT !.children = Arr(MapKeep(kids, img))]
            ELSE validNode

RECURSIVE validateAndCleanMindMap(_)
validateAndCleanMindMap(node) ==
    IF node.kind = "null" \/ ~IsString(node.title) \/ ~IsString(node.summary)
    THEN Null
    ELSE LET validNode ==
                 Obj(Str(Substring0(node.title.v, TitleMax)),
                     node.summary,
                     IF Truthy(node.sourceText) THEN node.sourceText ELSE NA,
                     AbsentC)
         IN IF node.children.t = "arr" /\ Len(node.children.v) > 0
            THEN LET kids == node.children.v
                     img == [k \in {kids[i] : i \in 1..Len(kids)} |->
                                validateAndCleanMindMap(k)]
                 IN [validNode EXCEPT !.children = Arr(MapKeep(kids, img))]
            ELSE validNode

(***************************************************************************)
(* Payloads.  Structural payloads are all trees of at most MaxNodes nodes  *)
(* over a few node shapes; field payloads vary the root's properties; the  *)
(* deep payload is a chain nested one level deeper than DepthCeiling, the   *)
(* ceiling on nesting that the design asks for, scaled to what the checker *)
(* can hold (the sanitizer itself reads no depth at all).                  *)
(***************************************************************************)
TitleA == Str(<<97>>)
TitleB == Str(<<98>>)
LongTitle == Str([i \in 1..(TitleMax + 1) |-> 97])
Summ == Str(<<115>>)
Src == Str(<<120>>)

ValidA(ch) == Obj(TitleA, Summ, Src, ch)
ValidB(ch) == Obj(TitleB, Summ, AbsentF, ch)
BadTitle(ch) == Obj(Num(1), Summ, Src, ch)

InnerShapes(ch) == {ValidA(ch), ValidB(ch), BadTitle(ch)}
LeafNodes ==
    {Null, Prim} \cup UNION {InnerShapes(ch) : ch \in {AbsentC, OtherC, Arr(<<>>)}}

RECURSIVE Size(_), SizeAll(_)
Size(n) == 1 + SizeAll(n.children.v)
SizeAll(s) == IF s = <<>> THEN 0 ELSE Size(Head(s)) + SizeAll(Tail(s))

RECURSIVE Trees(_), Forests(_)
\* all trees of at most n nodes (n >= 1)
Trees(n) ==
    LeafNodes \cup
    UNION {InnerShapes(Arr(f)) : f \in Forests(n - 1) \ {<<>>}}
\* all sequences of trees with at most m nodes in total
Forests(m) ==
    IF m <= 0 THEN {<<>>}
    ELSE {<<>>} \cup
         UNION {{<<t>> \o f : f \in Forests(m - Size(t))} : t \in Trees(m)}

FieldPayloads ==
    {Obj(ti, su, so, ch) :
        ti \in {AbsentF, Num(1), Str(<<>>), TitleA, LongTitle},
        su \in {AbsentF, Num(1), Str(<<>>), Summ},
        so \in {AbsentF, Str(<<>>), Src, Num(0), Num(5)},
        ch \in {AbsentC, OtherC, Arr(<<>>), Arr(<<ValidA(AbsentC)>>), Arr(<<Null>>)}}

RECURSIVE Chain(_)
\* a chain of valid nodes with n levels below the root
Chain(n) ==
    IF n = 0 THEN ValidA(AbsentC) ELSE ValidB(Arr(<<Chain(n - 1)>>))

Payloads == Trees(MaxNodes) \cup FieldPayloads \cup {Chain(DepthCeiling + 1)}

RECURSIVE Depth(_), DepthAll(_)
\* nesting depth: 0 for a node without child elements
Depth(n) == IF n.children.v = <<>> THEN 0 ELSE 1 + DepthAll(n.children.v)
DepthAll(s) ==
    IF s = <<>> THEN 0
    ELSE LET d == Depth(Head(s))
             r == DepthAll(Tail(s))
         IN IF d > r THEN d ELSE r

(***************************************************************************)
(* Archive store.  The blob is the string stored under ARCHIVE_KEY:        *)
(* "missing" (getItem gives null), "empty" (the empty string), "garbage"   *)
(* (not JSON), "nonlist" (JSON of something that is no array) or "list"    *)
(* (JSON of an array of entries, v).  A call's completion is               *)
(* [threw, val]: whether it threw and the list it returned.                *)
(***************************************************************************)
MaxClock == 3
MaxArchive == 3

FileNames == {"a.pdf", "b.pdf"}
Clock == 1..MaxClock

Blob(k, s) == [kind |-> k, v |-> s]
Completion(t, l) == [threw |-> t, val |-> l]

\* localStorage.getItem: throws when storage access is denied
GetItem(b, d) == [threw |-> d, val |-> b]
\* localStorage.setItem: throws when access is denied or the quota is exceeded,
\* and then leaves the stored value as it was
SetItem(b, d, full, text) ==
    IF d \/ full THEN [threw |-> TRUE, blob |-> b]
    ELSE [threw |-> FALSE, blob |-> text]
\* JSON.parse of a non-empty string
JSONparse(text) == [threw |-> text.kind = "garbage", val |-> text]
\* JSON.stringify of an array of entries (plain data: numbers, strings, trees)
JSONstringify(list) == Blob("list", list)

RECURSIVE InsertDesc(_, _)
\* x placed after every element whose id is >= x.id (Array.prototype.sort is stable)
InsertDesc(x, sorted) ==
    IF sorted = <<>> THEN <<x>>
    ELSE IF Head(sorted).id >= x.id
         THEN <<Head(sorted)>> \o InsertDesc(x, Tail(sorted))
         ELSE <<x>> \o sorted

RECURSIVE SortFrom(_, _)
SortFrom(rest, acc) ==
    IF rest = <<>> THEN acc
    ELSE SortFrom(Tail(rest), InsertDesc(Head(rest), acc))

\* the list left in stored order (no sort)
SortDescOmitted(list) == list

\* list.sort((a, b) => b.id - a.id)
SortDesc(list) == SortFrom(list, <<>>)

\* archives.sort(...) on the parsed value: a TypeError when it is no array
SortCall(val) ==
    IF val.kind # "list" THEN [threw |-> TRUE, val |-> <<>>]
    ELSE [threw |-> FALSE, val |-> SortDesc(val.v)]

\* the try block: its completion before the catch is applied
getArchivedTry(b, d) ==
    LET g == GetItem(b, d)
    IN IF g.threw THEN Completion(TRUE, <<>>)
       ELSE IF g.val.kind \in {"missing", "empty"} THEN Completion(FALSE, <<>>)
       ELSE LET p == JSONparse(g.val)
            IN IF p.threw THEN Completion(TRUE, <<>>)
               ELSE LET s == SortCall(p.val)
                    IN Completion(s.threw, s.val)

\* getArchivedMindMaps letting an exception of the try block escape
getArchivedUncaught(b, d) == getArchivedTry(b, d)

getArchivedMindMaps(b, d) ==
    LET r == getArchivedTry(b, d)
    IN IF r.threw THEN Completion(FALSE, <<>>) ELSE r

Entry(now, fileName, data) ==
    [id |-> now, fileName |-> fileName, createdAt |-> now, mindMapData |-> data]

\* saveMindMap with the new entry placed last
saveMindMapAppend(b, d, full, now, fileName, data) ==
    LET archs == getArchivedMindMaps(b, d).val
        updatedArchives == archs \o <<Entry(now, fileName, data)>>
        w == SetItem(b, d, full, JSONstringify(updatedArchives))
    IN IF w.threw THEN [threw |-> FALSE, val |-> archs, blob |-> w.blob]
       ELSE [threw |-> FALSE, val |-> updatedArchives, blob |-> w.blob]

\* saveMindMap returning the updated list even when the write failed
saveMindMapNoRollback(b, d, full, now, fileName, data) ==
    LET archs == getArchivedMindMaps(b, d).val
        updatedArchives == <<Entry(now, fileName, data)>> \o archs
        w == SetItem(b, d, full, JSONstringify(updatedArchives))
    IN [threw |-> FALSE, val |-> updatedArchives, blob |-> w.blob]

\* Date.now() and new Date() are read in the same millisecond: createdAt
\* carries the same clock value as id
saveMindMap(b, d, full, now, fileName, data) ==
    LET archs == getArchivedMindMaps(b, d).val
        newArchive == Entry(now, fileName, data)
        updatedArchives == <<newArchive>> \o archs
        w == SetItem(b, d, full, JSONstringify(updatedArchives))
    IN IF w.threw THEN [threw |-> FALSE, val |-> archs, blob |-> w.blob]
       ELSE [threw |-> FALSE, val |-> updatedArchives, blob |-> w.blob]

RECURSIVE DropFirst(_, _)
DropFirst(list, id) ==
    IF list = <<>> THEN <<>>
    ELSE IF Head(list).id = id THEN Tail(list)
         ELSE <<Head(list)>> \o DropFirst(Tail(list), id)

\* deleteMindMap removing only the first entry that matches
deleteMindMapFirst(b, d, full, id) ==
    LET archs == getArchivedMindMaps(b, d).val
        updatedArchives == DropFirst(archs, id)
        w == SetItem(b, d, full, JSONstringify(updatedArchives))
    IN IF w.threw THEN [threw |-> FALSE, val |-> archs, blob |-> w.blob]
       ELSE [threw |-> FALSE, val |-> updatedArchives, blob |-> w.blob]

deleteMindMap(b, d, full, id) ==
    LET archs == getArchivedMindMaps(b, d).val
        updatedArchives == SelectSeq(archs, LAMBDA archive : archive.id # id)
        w == SetItem(b, d, full, JSONstringify(updatedArchives))
    IN IF w.threw THEN [threw |-> FALSE, val |-> archs, blob |-> w.blob]
       ELSE [threw |-> FALSE, val |-> updatedArchives, blob |-> w.blob]

NoEntry == Entry(0, "", "")

(***************************************************************************)
(* App state before mount (useState initial values) and an idle store.     *)
(***************************************************************************)
NoMap == [inst |-> 0, shape |-> "none"]
NoNode == [inst |-> 0, idx |-> 0]

AppInit ==
    /\ mindMapData = NoMap
    /\ selectedNode = NoNode
    /\ isFocusMode = FALSE
    /\ status = "idle"
    /\ archives = <<>>
    /\ archInst = <<>>
    /\ mounted = FALSE
    /\ viewport \in {"zero", "sized"}
    /\ genPc = "none"
    /\ genData = NoMap
    /\ genFile = ""
    /\ loadPc = "none"
    /\ drawn = NoMap
    /\ nodeOpacity = <<>>
    /\ edgeOpacity = <<>>
    /\ nodeRadius = <<>>
    /\ layoutPass = "none"

StoreInit ==
    /\ blob \in {Blob("missing", <<>>), Blob("empty", <<>>), Blob("garbage", <<>>),
                 Blob("nonlist", <<>>), Blob("list", <<>>)}
    /\ denied \in BOOLEAN
    /\ lastOp = "none"
    /\ lastArg = NoEntry
    /\ lastOk = FALSE
    /\ lastRet = Completion(FALSE, <<>>)
    /\ preList = <<>>
    /\ preBlob = Blob("missing", <<>>)

SanIdle ==
    /\ raw = Null
    /\ cleaned = Null
    /\ recleaned = Null
    /\ sanPc = "input"

(***************************************************************************)
(* SpecSan: a payload is sanitized, and a non-null result sanitized again. *)
(***************************************************************************)
SanInit ==
    /\ raw \in Payloads
    /\ cleaned = Null
    /\ recleaned = Null
    /\ sanPc = "input"

Sanitize ==
    /\ sanPc = "input"
    /\ cleaned' = validateAndCleanMindMap(raw)
    /\ sanPc' = "cleaned"
    /\ UNCHANGED <<raw, recleaned>>

Resanitize ==
    /\ sanPc = "cleaned"
    /\ cleaned # Null
    /\ recleaned' = validateAndCleanMindMap(cleaned)
    /\ sanPc' = "recleaned"
    /\ UNCHANGED <<raw, cleaned>>

SanNext ==
    \/ Sanitize /\ UNCHANGED <<archVars, appVars>>
    \/ Resanitize /\ UNCHANGED <<archVars, appVars>>

InitSan ==
    /\ SanInit
    /\ StoreInit
    /\ blob = Blob("missing", <<>>)
    /\ ~denied
    /\ AppInit
    /\ viewport = "sized"

SpecSan == InitSan /\ [][SanNext]_vars

(***************************************************************************)
(* SpecArch: the three store functions called in any order, with any clock *)
(* value, file name and write outcome.                                     *)
(***************************************************************************)
ListCall ==
    /\ lastOp' = "list"
    /\ lastArg' = NoEntry
    /\ lastOk' = FALSE
    /\ lastRet' = getArchivedMindMaps(blob, denied)
    /\ preList' = getArchivedMindMaps(blob, denied).val
    /\ preBlob' = blob
    /\ UNCHANGED <<blob, denied>>

SaveCall(now, fileName, full) ==
    LET r == saveMindMap(blob, denied, full, now, fileName, "fork")
    IN /\ Len(getArchivedMindMaps(blob, denied).val) < MaxArchive
       /\ lastOp' = "save"
       /\ lastArg' = Entry(now, fileName, "fork")
       /\ lastOk' = ~(denied \/ full)
       /\ lastRet' = Completion(r.threw, r.val)
       /\ preList' = getArchivedMindMaps(blob, denied).val
       /\ preBlob' = blob
       /\ blob' = r.blob
       /\ UNCHANGED denied

DeleteCall(id, full) ==
    LET r == deleteMindMap(blob, denied, full, id)
    IN /\ lastOp' = "delete"
       /\ lastArg' = Entry(id, "", "")
       /\ lastOk' = ~(denied \/ full)
       /\ lastRet' = Completion(r.threw, r.val)
       /\ preList' = getArchivedMindMaps(blob, denied).val
       /\ preBlob' = blob
       /\ blob' = r.blob
       /\ UNCHANGED denied

ArchNext ==
    \/ ListCall /\ UNCHANGED <<sanVars, appVars>>
    \/ \E now \in Clock, f \in FileNames, full \in BOOLEAN :
           SaveCall(now, f, full) /\ UNCHANGED <<sanVars, appVars>>
    \/ \E id \in Clock, full \in BOOLEAN :
           DeleteCall(id, full) /\ UNCHANGED <<sanVars, appVars>>

InitArch == SanIdle /\ StoreInit /\ AppInit /\ viewport = "sized"

SpecArch == InitArch /\ [][ArchNext]_vars

(***************************************************************************)
(* MindMap component.  A displayed tree is an object instance [inst,       *)
(* shape]; its nodes are [inst, idx], compared by identity as === does.    *)
(* The DOM holds what the layout effect drew and the attributes the focus  *)
(* effect last set on it.                                                  *)
(***************************************************************************)
Shapes == {"fork"}
\* parent index of each node (0 for the root), nodes numbered in d3's
\* descendants() order
Parent(shape) ==
    CASE shape = "fork" -> <<0, 1, 1, 2>>
      [] shape = "chain" -> <<0, 1>>
      [] OTHER -> <<>>
NodeCount(tree) == Len(Parent(tree.shape))
Node(tree, i) == [inst |-> tree.inst, idx |-> i]
TreeNodes(tree) == {Node(tree, i) : i \in 1..NodeCount(tree)}

Dom(d, no, eo, nr) ==
    [drawn |-> d, nodeOpacity |-> no, edgeOpacity |-> eo, nodeRadius |-> nr]
EmptyDom == Dom(NoMap, <<>>, <<>>, <<>>)

\* the layout effect past its zero-size guard: everything redrawn, no opacity
\* attribute yet (fully opaque), circles of radius 5
Draw(data) ==
    Dom(data,
        [i \in 1..NodeCount(data) |-> "1"],
        [k \in 1..(NodeCount(data) - 1) |-> "1"],
        [i \in 1..NodeCount(data) |-> "5"])

\* d3.hierarchy(data).descendants().find(d => d.data === selectedNode):
\* the node's index, 0 when find returns undefined
FindIn(data, sel) ==
    IF sel.inst = data.inst /\ sel.idx \in 1..NodeCount(data) THEN sel.idx ELSE 0

RECURSIVE PathUp(_, _)
\* while (current) { ancestors.add(current.data); current = current.parent }
PathUp(parent, i) == IF i = 0 THEN {} ELSE {i} \cup PathUp(parent, parent[i])

\* the focus effect keeping only the selected node itself, not its ancestors
ApplyFocusSelectedOnly(dom, data, sel, focus) ==
    LET n == NodeCount(dom.drawn)
        parent == Parent(dom.drawn.shape)
        has(i) == dom.drawn.inst = data.inst /\ i = FindIn(data, sel)
    IN IF focus /\ sel # NoNode
       THEN Dom(dom.drawn,
                [i \in 1..n |-> IF has(i) THEN "1" ELSE "0.15"],
                [k \in 1..(n - 1) |->
                    IF has(parent[k + 1]) /\ has(k + 1) THEN "1" ELSE "0.1"],
                [i \in 1..n |-> IF Node(dom.drawn, i) = sel THEN "8" ELSE "5"])
       ELSE Dom(dom.drawn, [i \in 1..n |-> "1"], [k \in 1..(n - 1) |-> "1"],
                [i \in 1..n |-> "5"])

\* the focus effect: edge k is the link into node k + 1
ApplyFocus(dom, data, sel, focus) ==
    LET n == NodeCount(dom.drawn)
        parent == Parent(dom.drawn.shape)
        anc == PathUp(Parent(data.shape), FindIn(data, sel))
        has(i) == dom.drawn.inst = data.inst /\ i \in anc
    IN IF focus /\ sel # NoNode
       THEN Dom(dom.drawn,
                [i \in 1..n |-> IF has(i) THEN "1" ELSE "0.15"],
                [k \in 1..(n - 1) |->
                    IF has(parent[k + 1]) /\ has(k + 1) THEN "1" ELSE "0.1"],
                [i \in 1..n |-> IF Node(dom.drawn, i) = sel THEN "8" ELSE "5"])
       ELSE Dom(dom.drawn, [i \in 1..n |-> "1"], [k \in 1..(n - 1) |-> "1"],
                [i \in 1..n |-> "5"])

CurrentDom == Dom(drawn, nodeOpacity, edgeOpacity, nodeRadius)

\* a layout effect without a dependency list: run after every render
LayoutEffectEveryRender(newData) ==
    IF newData = NoMap THEN "none"
    ELSE IF viewport = "sized" THEN "ran" ELSE "skipped"

\* What the layout effect does when a render with this data is committed.
\* Its dependencies are [data, onNodeSelect]; onNodeSelect is App's
\* handleNodeSelect, a useCallback with no dependencies, so it never changes:
\* the effect runs on mount and when data is another object, and returns at
\* its guard when the svg has no size.
LayoutEffect(newData) ==
    IF newData = NoMap THEN "none"
    ELSE IF mindMapData = NoMap \/ newData # mindMapData
         THEN IF viewport = "sized" THEN "ran" ELSE "skipped"
         ELSE "none"

\* The DOM after a render is committed and its effects have run.  MindMap is
\* mounted while mindMapData is non-null; the layout effect runs on mount and
\* when data changes, and returns early on a zero-size viewport; the focus
\* effect runs after it, on mount and when isFocusMode, selectedNode or data
\* changes.
DomAfter(newData, newSel, newFocus) ==
    IF newData = NoMap THEN EmptyDom
    ELSE LET mounting == mindMapData = NoMap
             dataChanged == mounting \/ newData # mindMapData
             dom0 == IF mounting THEN EmptyDom ELSE CurrentDom
             dom1 == IF LayoutEffect(newData) = "ran" THEN Draw(newData) ELSE dom0
             focusRuns ==
                 dataChanged \/ newSel # selectedNode \/ newFocus # isFocusMode
         IN IF focusRuns THEN ApplyFocus(dom1, newData, newSel, newFocus) ELSE dom1

\* Instance numbers are names only.  After a step the live instances are
\* renumbered 1, 2, ... in the order data, drawn tree, selection, generated
\* tree, so that states differing in the numbering alone coincide.
Renumber(x, order) ==
    IF x = 0 THEN 0
    ELSE LET k == CHOOSE j \in 1..Len(order) :
                      order[j] = x /\ \A h \in 1..(j - 1) : order[h] # x
         IN Cardinality({order[h] : h \in 1..(k - 1)} \ {0}) + 1

\* archInst with the entries nothing else refers to any more back at 0
Aliases(insts, live) ==
    [i \in 1..Len(insts) |-> IF insts[i] \in live THEN insts[i] ELSE 0]

\* A render is committed with this state, and its effects run
Commit(newData, newSel, newFocus, newGen, newArchInst) ==
    \E dom \in {DomAfter(newData, newSel, newFocus)} :
    \E order \in {<<newData.inst, dom.drawn.inst, newSel.inst, newGen.inst>>} :
    LET live == {order[j] : j \in 1..Len(order)} \ {0}
        ren(x) == Renumber(x, order)
        insts == Aliases(newArchInst, live)
    IN /\ mindMapData' = [newData EXCEPT !.inst = ren(newData.inst)]
       /\ selectedNode' = [newSel EXCEPT !.inst = ren(newSel.inst)]
       /\ isFocusMode' = newFocus
       /\ genData' = [newGen EXCEPT !.inst = ren(newGen.inst)]
       /\ archInst' = [i \in 1..Len(insts) |-> ren(insts[i])]
       /\ drawn' = [dom.drawn EXCEPT !.inst = ren(dom.drawn.inst)]
       /\ nodeOpacity' = dom.nodeOpacity
       /\ edgeOpacity' = dom.edgeOpacity
       /\ nodeRadius' = dom.nodeRadius
       /\ layoutPass' = LayoutEffect(newData)

(***************************************************************************)
(* generateMindMapFromPdf on the parsed API answer, and the shape d3 gives *)
(* the sanitized tree.                                                     *)
(***************************************************************************)
\* a root with two children, the first of which has a child
ForkPayload ==
    ValidA(Arr(<<ValidB(Arr(<<ValidA(AbsentC)>>)), ValidA(AbsentC)>>))
\* a root with a numeric title above a well-formed tree
BadRootPayload == BadTitle(Arr(<<ForkPayload>>))
GenPayloads == {ForkPayload, BadRootPayload, Null}

\* a generation that hands out the first child of a rejected root
generateFromFirstChild(p) ==
    LET cleanedData == validateAndCleanMindMap(p)
    IN IF cleanedData # Null THEN [threw |-> FALSE, val |-> cleanedData]
       ELSE IF p.children.t = "arr" /\ Len(p.children.v) > 0
            THEN [threw |-> FALSE, val |-> validateAndCleanMindMap(p.children.v[1])]
            ELSE [threw |-> TRUE, val |-> Null]

\* lines 211-225: if (!cleanedData) throw; return cleanedData
generateMindMapFromPdf(p) ==
    LET cleanedData == validateAndCleanMindMap(p)
    IN [threw |-> cleanedData = Null, val |-> cleanedData]

RECURSIVE Bfs(_, _)
\* parent indices in breadth-first order, as d3.hierarchy iterates: queue
\* holds the nodes still to number, done counts the numbered ones
Bfs(queue, done) ==
    IF queue = <<>> THEN <<>>
    ELSE LET h == Head(queue)
             kids == h.node.children.v
         IN <<h.parent>> \o
            Bfs(Tail(queue) \o
                    [i \in 1..Len(kids) |-> [node |-> kids[i], parent |-> done + 1]],
                done + 1)

\* the shape whose parent vector is the tree's
ShapeOf(tree) ==
    CHOOSE sh \in {"fork", "chain"} :
        Parent(sh) = Bfs(<<[node |-> tree, parent |-> 0]>>, 0)

(***************************************************************************)
(* App component (Spec).  A user event runs only between tasks: not while  *)
(* a handler is suspended on initializeChat, which resolves in microtasks. *)
(* A new object (a generated tree, a parsed archive entry shown for the    *)
(* first time) gets the smallest instance number no live reference holds.  *)
(***************************************************************************)
MaxSaved == 2

AppFiles == {"a.pdf"}
\* Date.now() at a save: the earliest and the latest clock value
AppClock == {1, MaxClock}

Unshared(list) == [i \in 1..Len(list) |-> 0]
Quiescent == mounted /\ loadPc = "none" /\ genPc # "chat"
storeTrace == <<lastOp, lastArg, lastOk, lastRet, preList, preBlob>>

LiveInsts == {mindMapData.inst, selectedNode.inst, drawn.inst, genData.inst} \ {0}
\* a new object: a number no live reference holds
FreshInst == Cardinality(LiveInsts) + 1

\* useEffect(() => setArchives(getArchivedMindMaps()), [])
Mount ==
    /\ ~mounted
    /\ mounted' = TRUE
    /\ archives' = getArchivedMindMaps(blob, denied).val
    /\ archInst' = Unshared(archives')
    /\ UNCHANGED <<mindMapData, selectedNode, isFocusMode, status, viewport, genPc,
                   genData, genFile, loadPc, drawn, nodeOpacity, edgeOpacity,
                   nodeRadius, layoutPass, archVars, sanVars>>

\* the page is reloaded: every component state is back to its initial value
\* and the last API answer is forgotten
Reload ==
    /\ mounted
    /\ mounted' = FALSE
    /\ mindMapData' = NoMap
    /\ selectedNode' = NoNode
    /\ isFocusMode' = FALSE
    /\ status' = "idle"
    /\ archives' = <<>>
    /\ archInst' = <<>>
    /\ genPc' = "none"
    /\ genData' = NoMap
    /\ genFile' = ""
    /\ loadPc' = "none"
    /\ drawn' = NoMap
    /\ nodeOpacity' = <<>>
    /\ edgeOpacity' = <<>>
    /\ nodeRadius' = <<>>
    /\ layoutPass' = "none"
    /\ raw' = Null
    /\ cleaned' = Null
    /\ sanPc' = "input"
    /\ UNCHANGED <<recleaned, viewport, archVars>>

\* the svg's bounding rectangle changes; nothing in MindMap listens for it
Resize ==
    /\ Quiescent
    /\ viewport' = IF viewport = "zero" THEN "sized" ELSE "zero"
    /\ UNCHANGED <<mindMapData, selectedNode, isFocusMode, status, archives,
                   archInst, mounted, genPc, genData, genFile, loadPc, drawn,
                   nodeOpacity, edgeOpacity, nodeRadius, layoutPass, archVars, sanVars>>

\* FileUpload offers its control only when status is neither loading nor error
UploadOffered == mindMapData = NoMap /\ status \notin {"loading", "error"}

\* handleFileSelect, up to the first await of generateMindMap
handleFileSelect(file) ==
    /\ Quiescent
    /\ UploadOffered
    /\ Commit(NoMap, NoNode, FALSE, genData, archInst)
    /\ status' = "loading"
    /\ genPc' = "await"
    /\ genFile' = file
    /\ UNCHANGED <<archives, mounted, viewport, loadPc, archVars, sanVars>>

\* generateMindMap: fileToBase64 or the API call rejects, or the answer is
\* not JSON
GenerateFails ==
    /\ Quiescent
    /\ genPc = "await"
    /\ status' = "error"
    /\ genPc' = "none"
    /\ UNCHANGED <<mindMapData, selectedNode, isFocusMode, archives, archInst,
                   mounted, viewport, genData, genFile, loadPc, drawn,
                   nodeOpacity, edgeOpacity, nodeRadius, layoutPass, archVars, sanVars>>

\* generateMindMap: generateMindMapFromPdf resolves with a new tree of this
\* shape; setMindMapData(data), then suspended on initializeChat
GenerateResolves(shape) ==
    /\ Quiescent
    /\ genPc = "await"
    /\ Commit([inst |-> FreshInst, shape |-> shape], selectedNode, isFocusMode,
              [inst |-> FreshInst, shape |-> shape], archInst)
    /\ genPc' = "chat"
    /\ UNCHANGED <<status, archives, mounted, viewport, genFile, loadPc, archVars>>

\* generateMindMap at line 73: the API answers with payload p, which
\* generateMindMapFromPdf sanitizes; a throw goes to the catch block
GenerateReturns(p) ==
    LET r == generateMindMapFromPdf(p)
    IN /\ Quiescent
       /\ genPc = "await"
       /\ raw' = p
       /\ cleaned' = r.val
       /\ sanPc' = "cleaned"
       /\ UNCHANGED recleaned
       /\ IF r.threw
          THEN /\ status' = "error"
               /\ genPc' = "none"
               /\ UNCHANGED <<mindMapData, selectedNode, isFocusMode, archives,
                              archInst, mounted, viewport, genData, genFile,
                              loadPc, drawn, nodeOpacity, edgeOpacity,
                              nodeRadius, layoutPass, archVars>>
          ELSE GenerateResolves(ShapeOf(r.val))

\* generateMindMap after initializeChat: status, saveMindMap, setArchives
GenerateSaves(now, full) ==
    LET r == saveMindMap(blob, denied, full, now, genFile, genData.shape)
    IN /\ genPc = "chat"
       /\ status' = "success"
       /\ blob' = r.blob
       /\ archives' = r.val
       /\ Commit(mindMapData, selectedNode, isFocusMode, NoMap,
                 IF denied \/ full THEN Unshared(r.val)
                 ELSE <<genData.inst>> \o Unshared(Tail(r.val)))
       /\ genPc' = "none"
       /\ UNCHANGED <<mounted, viewport, genFile, loadPc, denied, storeTrace,
                      sanVars>>

\* generateMindMap: initializeChat rejects, caught by the catch block
GenerateChatFails ==
    /\ genPc = "chat"
    /\ status' = "error"
    /\ genPc' = "none"
    /\ Commit(mindMapData, selectedNode, isFocusMode, NoMap, archInst)
    /\ UNCHANGED <<archives, mounted, viewport, genFile, loadPc, archVars, sanVars>>

\* handleNodeSelect(d.data) from a click on a drawn node
handleNodeSelect(i) ==
    /\ Quiescent
    /\ drawn # NoMap
    /\ i \in 1..NodeCount(drawn)
    /\ Commit(mindMapData, Node(drawn, i), TRUE, genData, archInst)
    /\ UNCHANGED <<status, archives, mounted, viewport, genPc, genFile, loadPc,
                   archVars, sanVars>>

\* handleNodeSelect(null) without its setIsFocusMode call
handleNodeSelectNullKeepingFocus ==
    /\ Quiescent
    /\ drawn # NoMap \/ selectedNode # NoNode
    /\ Commit(mindMapData, NoNode, isFocusMode, genData, archInst)
    /\ UNCHANGED <<status, archives, mounted, viewport, genPc, genFile, loadPc,
                   archVars, sanVars>>

\* handleNodeSelect(null): a click on the svg background, or the side panel's
\* close button
handleNodeSelectNull ==
    /\ Quiescent
    /\ drawn # NoMap \/ selectedNode # NoNode
    /\ Commit(mindMapData, NoNode, FALSE, genData, archInst)
    /\ UNCHANGED <<status, archives, mounted, viewport, genPc, genFile, loadPc,
                   archVars, sanVars>>

\* handleLoadFromArchive up to its await: setMindMapData(archive.mindMapData)
handleLoadFromArchive(i) ==
    /\ Quiescent
    /\ i \in 1..Len(archives)
    /\ LET inst == IF archInst[i] = 0 THEN FreshInst ELSE archInst[i]
       IN Commit([inst |-> inst, shape |-> archives[i].mindMapData],
                 selectedNode, isFocusMode, genData,
                 [archInst EXCEPT ![i] = inst])
    /\ loadPc' = "chat"
    /\ UNCHANGED <<status, archives, mounted, viewport, genPc, genFile, archVars,
                   sanVars>>

\* handleLoadFromArchive after initializeChat
LoadFinishes ==
    /\ loadPc = "chat"
    /\ Commit(mindMapData, NoNode, FALSE, genData, archInst)
    /\ status' = "success"
    /\ loadPc' = "none"
    /\ UNCHANGED <<archives, mounted, viewport, genPc, genFile, archVars, sanVars>>

\* handleLoadFromArchive: initializeChat rejects and the handler ends there
LoadChatFails ==
    /\ loadPc = "chat"
    /\ loadPc' = "none"
    /\ UNCHANGED <<mindMapData, selectedNode, isFocusMode, status, archives,
                   archInst, mounted, viewport, genPc, genData, genFile, drawn,
                   nodeOpacity, edgeOpacity, nodeRadius, layoutPass, archVars, sanVars>>

handleDeleteFromArchive(i, full) ==
    /\ Quiescent
    /\ i \in 1..Len(archives)
    /\ LET r == deleteMindMap(blob, denied, full, archives[i].id)
       IN /\ blob' = r.blob
          /\ archives' = r.val
          /\ archInst' = Unshared(r.val)
    /\ UNCHANGED <<mindMapData, selectedNode, isFocusMode, status, mounted,
                   viewport, genPc, genData, genFile, loadPc, drawn, nodeOpacity,
                   edgeOpacity, nodeRadius, layoutPass, denied, storeTrace, sanVars>>

Init ==
    /\ SanIdle
    /\ StoreInit
    /\ blob \in {Blob("missing", <<>>), Blob("garbage", <<>>)}
    /\ ~denied
    /\ AppInit

Next ==
    \/ Mount
    \/ Reload
    \/ Resize
    \/ \E f \in AppFiles :
           /\ UploadOffered
           /\ Len(getArchivedMindMaps(blob, denied).val) < MaxSaved
           /\ handleFileSelect(f)
    \/ GenerateFails
    \/ \E p \in GenPayloads : GenerateReturns(p)
    \/ \E now \in AppClock, full \in BOOLEAN : GenerateSaves(now, full)
    \/ GenerateChatFails
    \/ \E i \in 1..NodeCount(drawn) : handleNodeSelect(i)
    \/ handleNodeSelectNull
    \/ \E i \in 1..Len(archives) : handleLoadFromArchive(i)
    \/ LoadFinishes
    \/ LoadChatFails
    \/ \E i \in 1..Len(archives), full \in BOOLEAN : handleDeleteFromArchive(i, full)

Spec == Init /\ [][Next]_vars

(***************************************************************************)
(* SpecFair: Spec with progress.  A pending promise settles (the mount     *)
(* effect runs, the API call and initializeChat resolve or reject), and a  *)
(* user who wants to get on keeps using the controls the page offers: the  *)
(* upload control, the archive's load button, the side panel's close.      *)
(* Nothing makes the user reload, resize or delete.                        *)
(***************************************************************************)
Progress ==
    /\ WF_vars(Mount)
    /\ WF_vars(GenerateFails \/ \E p \in GenPayloads : GenerateReturns(p))
    /\ WF_vars(GenerateChatFails
                   \/ \E now \in AppClock, full \in BOOLEAN : GenerateSaves(now, full))
    /\ WF_vars(LoadFinishes \/ LoadChatFails)
    /\ SF_vars(\E f \in AppFiles :
                   /\ Len(getArchivedMindMaps(blob, denied).val) < MaxSaved
                   /\ handleFileSelect(f))
    /\ SF_vars(\E i \in 1..Len(archives) : handleLoadFromArchive(i))
    /\ SF_vars(handleNodeSelectNull)

SpecFair == Init /\ [][Next]_vars /\ Progress

(***************************************************************************)
(* Sanitizer claims (SpecSan)                                              *)
(***************************************************************************)
RECURSIVE NodesOf(_), NodesOfAll(_)
\* every node of a tree, the root included
NodesOf(n) == {n} \cup NodesOfAll(n.children.v)
NodesOfAll(s) == IF s = <<>> THEN {} ELSE NodesOf(Head(s)) \cup NodesOfAll(Tail(s))

\* C2: whenever no child survives validation (children omitted, [], or all of
\* them invalid) the sanitized node has no children property at all: no node of
\* a result carries an empty children array.
C2_NoEmptyChildren ==
    (sanPc # "input" /\ cleaned # Null) =>
        \A n \in NodesOf(cleaned) : n.children.t = "arr" => n.children.v # <<>>

\* C3: sanitizing is structurally idempotent: sanitizing a result again gives
\* the same tree, presence or absence of children included.
C3_Idempotent == sanPc = "recleaned" => recleaned = cleaned

\* C4: nesting is capped: a payload nested deeper than the ceiling is rejected
\* (null) instead of being recursed into to its full depth.
C4_DepthCapped ==
    (sanPc # "input" /\ Depth(raw) > DepthCeiling) => cleaned = Null

(***************************************************************************)
(* Archive claims (SpecArch)                                               *)
(***************************************************************************)
\* what getArchivedMindMaps returns in the current state
Listed == getArchivedMindMaps(blob, denied).val

Ids(list) == {list[i].id : i \in 1..Len(list)}

Occurrences(list, e) == Cardinality({i \in 1..Len(list) : list[i] = e})

SameEntries(l1, l2) ==
    /\ Len(l1) = Len(l2)
    /\ \A i \in 1..Len(l1) : Occurrences(l1, l1[i]) = Occurrences(l2, l1[i])

RemoveAt(list, i) == SubSeq(list, 1, i - 1) \o SubSeq(list, i + 1, Len(list))

RECURSIVE Without(_, _)
\* list with every entry of that id left out, the rest in order
Without(list, id) ==
    IF list = <<>> THEN <<>>
    ELSE (IF Head(list).id = id THEN <<>> ELSE <<Head(list)>>)
         \o Without(Tail(list), id)

\* C5: a save or delete whose storage write fails does not throw, returns the
\* list loaded before the call, and leaves the stored blob as it was.
C5_FailSoftWrite ==
    (lastOp \in {"save", "delete"} /\ ~lastOk) =>
        /\ ~lastRet.threw
        /\ lastRet.val = preList
        /\ blob = preBlob

C5_Witness ==
    /\ lastOp = "save"
    /\ ~lastOk
    /\ ~denied
    /\ Len(preList) >= 1

\* C6 as stated: after a successful save, for any clock value, the list is one
\* longer than before and its first element is the entry just saved.
C6_SavedIsFirst ==
    (lastOp = "save" /\ lastOk) =>
        /\ Len(Listed) = Len(preList) + 1
        /\ Listed[1] = lastArg

\* C6 amended: after a successful save the list is one longer than before and
\* holds the saved entry; the saved entry is first whenever the clock value
\* used as its id is not below any id already archived.
C6_SavedIsFirstWhenNewest ==
    (lastOp = "save" /\ lastOk) =>
        /\ Len(Listed) = Len(preList) + 1
        /\ \E i \in 1..Len(Listed) : Listed[i] = lastArg
        /\ (\A i \in Ids(preList) : i <= lastArg.id) => Listed[1] = lastArg

C6_Witness ==
    /\ lastOp = "save"
    /\ lastOk
    /\ Len(preList) >= 2
    /\ \A i \in Ids(preList) : i <= lastArg.id
    /\ lastArg.id \in Ids(preList)

\* C7: after any saves and deletes, getArchivedMindMaps returns the persisted
\* entries, all of them, ordered by id descending whatever order they were
\* inserted in (entries saved under the same clock value share an id and are
\* adjacent).
C7_ListedByIdDescending ==
    /\ \A i, j \in 1..Len(Listed) : i < j => Listed[i].id >= Listed[j].id
    /\ \A i, j \in 1..Len(Listed) :
           (i < j /\ Cardinality(Ids(Listed)) = Len(Listed)) =>
               Listed[i].id > Listed[j].id
    /\ (~denied /\ blob.kind = "list") => SameEntries(Listed, blob.v)

\* ids inserted in the order 1, 3, 2: the stored order is <<2, 3, 1>>
C7_Witness ==
    /\ ~denied
    /\ blob.kind = "list"
    /\ Len(blob.v) = 3
    /\ blob.v[1].id < blob.v[2].id
    /\ blob.v[3].id < blob.v[1].id

\* C8: the list a successful save or delete returns equals what
\* getArchivedMindMaps returns right afterwards.
C8_ReturnIsReloadedView ==
    (lastOp \in {"save", "delete"} /\ lastOk) => lastRet.val = Listed

\* C9 as stated: a delete removes exactly one entry, the one with that id, and
\* changes nothing else; with no such entry the list is unchanged.
C9_DeleteExactlyOne ==
    (lastOp = "delete" /\ lastOk) =>
        /\ ~lastRet.threw
        /\ IF lastArg.id \in Ids(preList)
           THEN \E i \in 1..Len(preList) :
                    /\ preList[i].id = lastArg.id
                    /\ Listed = RemoveAt(preList, i)
           ELSE Listed = preList

\* C9 amended: a delete removes every entry whose id equals the given id
\* (exactly one when ids are unique) and leaves all others present in the same
\* relative order; with no such entry the list is unchanged; it never throws.
C9_DeleteAllWithId ==
    (lastOp = "delete" /\ lastOk) =>
        /\ ~lastRet.threw
        /\ Listed = Without(preList, lastArg.id)
        /\ lastRet.val = Without(preList, lastArg.id)
        /\ lastArg.id \notin Ids(preList) => Listed = preList
        /\ Cardinality(Ids(preList)) = Len(preList) =>
               Len(Listed) >= Len(preList) - 1

C9_Witness ==
    /\ lastOp = "delete"
    /\ lastOk
    /\ Len(preList) - Len(Listed) = 2
    /\ Len(Listed) >= 1

\* C10: getArchivedMindMaps never throws, and returns the empty list when the
\* read throws or the blob is missing, not JSON, or JSON of something that is
\* not a list.
C10_ListNeverThrows ==
    lastOp = "list" =>
        /\ ~lastRet.threw
        /\ (denied \/ preBlob.kind # "list") => lastRet.val = <<>>

C10_Witness ==
    /\ lastOp = "list"
    /\ ~denied
    /\ preBlob.kind = "nonlist"

(***************************************************************************)
(* Focus claims (Spec)                                                     *)
(***************************************************************************)
\* focus mode is on with a selected node that is no node of the displayed tree
StaleSelection ==
    /\ mindMapData # NoMap
    /\ isFocusMode
    /\ selectedNode # NoNode
    /\ selectedNode \notin TreeNodes(mindMapData)

AllFull ==
    /\ \A i \in 1..Len(nodeOpacity) : nodeOpacity[i] = "1"
    /\ \A k \in 1..Len(edgeOpacity) : edgeOpacity[k] = "1"
    /\ \A i \in 1..Len(nodeRadius) : nodeRadius[i] = "5"

\* C1: with focus mode on and a selected node that does not belong to the
\* displayed tree, the focus effect leaves every node and every edge at full
\* emphasis, as it does for no selection.
C1_StaleSelectionAllFull ==
    (StaleSelection /\ drawn = mindMapData) => AllFull

\* the sets of node indices that hold s and, with each node, its parent
ClosedUp(tree, s) ==
    {S \in SUBSET (1..NodeCount(tree)) :
        /\ s \in S
        /\ \A j \in S : Parent(tree.shape)[j] = 0 \/ Parent(tree.shape)[j] \in S}

\* the root-to-s path: the smallest such set
RootPath(tree, s) ==
    CHOOSE S \in ClosedUp(tree, s) : \A T \in ClosedUp(tree, s) : S \subseteq T

\* C11: while the displayed tree is drawn, with no selection every node and
\* edge is full; with a selected node of the tree exactly the nodes on the
\* root-to-selected path are full and the others dimmed, the selected node
\* alone is highlighted, and an edge is full iff both its endpoints are on
\* the path.
C11_FocusEmphasis ==
    (mindMapData # NoMap /\ drawn = mindMapData) =>
        /\ selectedNode = NoNode => AllFull
        /\ selectedNode \in TreeNodes(mindMapData) =>
               LET path == RootPath(mindMapData, selectedNode.idx)
                   parent == Parent(mindMapData.shape)
               IN /\ \A i \in 1..NodeCount(mindMapData) :
                         /\ nodeOpacity[i] = (IF i \in path THEN "1" ELSE "0.15")
                         /\ nodeRadius[i] = (IF i = selectedNode.idx THEN "8" ELSE "5")
                  /\ \A k \in 1..(NodeCount(mindMapData) - 1) :
                         edgeOpacity[k] =
                             (IF parent[k + 1] \in path /\ (k + 1) \in path
                              THEN "1" ELSE "0.1")

\* a grandchild of the root is selected in the drawn tree: its path has three
\* nodes and one node is off it
C11_Witness ==
    /\ mindMapData # NoMap
    /\ drawn = mindMapData
    /\ selectedNode = Node(mindMapData, 4)
    /\ nodeOpacity = <<"1", "1", "0.15", "1">>
    /\ edgeOpacity = <<"1", "0.1", "1">>
    /\ nodeRadius = <<"5", "5", "5", "8">>

(***************************************************************************)
(* Sanitizer claims, continued (SpecSan)                                   *)
(***************************************************************************)
\* a record with a string title and a string summary
Acceptable(n) == n.kind = "obj" /\ n.title.t = "str" /\ n.summary.t = "str"

RECURSIVE AcceptedSize(_), AcceptedSizeAll(_)
\* the number of nodes of n reached through acceptable nodes only
AcceptedSize(n) ==
    IF Acceptable(n) THEN 1 + AcceptedSizeAll(n.children.v) ELSE 0
AcceptedSizeAll(s) ==
    IF s = <<>> THEN 0 ELSE AcceptedSize(Head(s)) + AcceptedSizeAll(Tail(s))

\* C12: the sanitizer accepts a node iff it is a record with a string title
\* and a string summary; anything else gives null for the node and everything
\* beneath it, so the result is null iff the root is not acceptable, and the
\* result has exactly the nodes reached through acceptable nodes.
C12_AcceptedIffStringTitleSummary ==
    sanPc # "input" =>
        /\ cleaned # Null <=> Acceptable(raw)
        /\ (IF cleaned = Null THEN 0 ELSE Size(cleaned)) = AcceptedSize(raw)

\* a valid root whose only child has a numeric title and a valid child of
\* its own: the root is kept, the child and the grandchild are gone
C12_Witness ==
    /\ sanPc = "cleaned"
    /\ raw = ValidA(Arr(<<BadTitle(Arr(<<ValidA(AbsentC)>>))>>))
    /\ cleaned # Null
    /\ Size(cleaned) = 1

\* the sanitized images of the children that pass, in their input order
PassingImages(kids) ==
    LET pass(x) == x # Null
    IN SelectSeq([i \in 1..Len(kids) |-> validateAndCleanMindMap(kids[i])], pass)

\* C13: at every level the children of a sanitized node are exactly the
\* sanitized images of the input children that pass validation, in their
\* original order; an invalid child drops neither its siblings nor its parent.
C13_ChildrenIndependent ==
    sanPc # "input" =>
        /\ Acceptable(raw) =>
               /\ cleaned # Null
               /\ cleaned.children.v = PassingImages(raw.children.v)
        /\ \A n \in NodesOf(raw) :
               Acceptable(n) =>
                   validateAndCleanMindMap(n).children.v = PassingImages(n.children.v)

\* children [A valid, a node with a numeric title]: exactly the child A
C13_Witness ==
    /\ sanPc = "cleaned"
    /\ raw = ValidB(Arr(<<ValidA(AbsentC), BadTitle(AbsentC)>>))
    /\ cleaned # Null
    /\ cleaned.children.v = <<ValidA(AbsentC)>>

\* C14: for a valid input node the sanitized sourceText is the input's
\* sourceText whenever the input has the field, whatever its value (the
\* empty string included), and is "N/A" exactly when the field is absent.
C14_SourceTextCopied ==
    (sanPc # "input" /\ Acceptable(raw)) =>
        /\ raw.sourceText.t # "absent" => cleaned.sourceText = raw.sourceText
        /\ raw.sourceText.t = "absent" => cleaned.sourceText = NA

\* C15: every node of a non-null result has a string title of at most
\* TitleMax characters, a string summary and a string sourceText; the root's
\* title is a prefix of the input title, of exactly TitleMax characters when
\* the input title was longer.
C15_OutputShape ==
    (sanPc # "input" /\ cleaned # Null) =>
        /\ \A n \in NodesOf(cleaned) :
               /\ n.title.t = "str" /\ Len(n.title.v) <= TitleMax
               /\ n.summary.t = "str"
               /\ n.sourceText.t = "str"
        /\ cleaned.title.v = SubSeq(raw.title.v, 1, Len(cleaned.title.v))
        /\ Len(raw.title.v) > TitleMax => Len(cleaned.title.v) = TitleMax

(***************************************************************************)
(* Layout claims (Spec)                                                    *)
(***************************************************************************)
\* the layout pass was skipped for the current data: the tree shown is not
\* the drawn one and the viewport has no size
LayoutSkipped == mindMapData # NoMap /\ drawn # mindMapData /\ viewport = "zero"

\* C16: when the layout pass was skipped on a zero-size viewport, it is
\* performed once the viewport reports a non-zero size, without the map data
\* having to change: the step that gives the viewport a size draws the tree.
C16_LayoutRetriedOnResize ==
    [][(LayoutSkipped /\ viewport' = "sized" /\ mindMapData' = mindMapData)
           => drawn' = mindMapData']_vars

(***************************************************************************)
(* Generation workflow claims (Spec)                                       *)
(***************************************************************************)
\* the generated tree has been set as the displayed map and the workflow is
\* suspended on initializeChat
GeneratedShown == genPc = "chat" /\ mindMapData = genData /\ mindMapData # NoMap

\* C17: a generated tree that App has set as the displayed map gets its
\* archive save: the workflow that displayed it ends, with the tree still
\* shown, only by the step that calls saveMindMap with it.
C17_DisplayedIsSaved ==
    [][(GeneratedShown /\ genPc' = "none" /\ mindMapData' # NoMap)
           => \E now \in AppClock, full \in BOOLEAN : GenerateSaves(now, full)]_vars

\* C18: when the root of the API's payload fails validation,
\* generateMindMapFromPdf throws and the step leaves mindMapData as it was,
\* saves no archive entry, sets status to 'error' and ends the workflow.
C18_MalformedPayloadHardFailure ==
    [][(/\ genPc = "await"
        /\ \E p \in GenPayloads : ~Acceptable(p) /\ GenerateReturns(p))
           => /\ generateMindMapFromPdf(raw').threw
              /\ mindMapData' = mindMapData
              /\ drawn' = drawn
              /\ blob' = blob
              /\ archives' = archives
              /\ status' = "error"
              /\ genPc' = "none"]_vars

\* the payload with the invalid root above a well-formed tree was received
\* while nothing was shown: still nothing is shown and nothing is archived
C18_Witness ==
    /\ sanPc = "cleaned"
    /\ raw = BadRootPayload
    /\ cleaned = Null
    /\ genPc = "none"
    /\ status = "error"
    /\ mindMapData = NoMap
    /\ archives = <<>>

(***************************************************************************)
(* Archive state claims (Spec)                                             *)
(***************************************************************************)
\* C19: once the initial load has run, and after every save or delete
\* handler, App's archives list equals, entry for entry and in the same
\* order, what getArchivedMindMaps returns from storage at that moment.
C19_ArchivesMatchStore == mounted => archives = Listed

(***************************************************************************)
(* Layout frame claims (Spec).  Instance numbers are renamed at a commit,  *)
(* so a step is told to change the data by the handler it belongs to, not  *)
(* by comparing mindMapData with its primed value.                         *)
(***************************************************************************)
\* a step that sets selectedNode and isFocusMode and leaves the data alone
\* (here and below, the conjuncts ahead of a handler are implied by it)
SelectStep ==
    \/ /\ isFocusMode' /\ loadPc' = loadPc /\ genPc' = genPc
       /\ viewport' = viewport /\ mounted' = mounted /\ blob' = blob
       /\ \E i \in 1..NodeCount(drawn) : selectedNode'.idx = i /\ handleNodeSelect(i)
    \/ /\ selectedNode' = NoNode /\ loadPc' = loadPc /\ genPc' = genPc
       /\ viewport' = viewport /\ mounted' = mounted /\ blob' = blob
       /\ handleNodeSelectNull
    \/ loadPc = "chat" /\ loadPc' = "none" /\ LoadFinishes

\* a step that makes another tree object the data
DataStep ==
    \/ /\ genPc = "await" /\ genPc' = "chat"
       /\ \E p \in GenPayloads :
              ~generateMindMapFromPdf(p).threw /\ GenerateReturns(p)
    \/ /\ loadPc = "none" /\ loadPc' = "chat"
       /\ \E i \in 1..Len(archives) :
              /\ archInst[i] = 0 \/ archInst[i] # mindMapData.inst
              /\ handleLoadFromArchive(i)

\* any other step that commits a render
OtherCommitStep ==
    \/ /\ genPc = "none" /\ genPc' = "await"
       /\ \E f \in AppFiles : handleFileSelect(f)
    \/ /\ genPc = "chat"
       /\ \/ \E now \in AppClock, full \in BOOLEAN : GenerateSaves(now, full)
          \/ GenerateChatFails
    \/ /\ loadPc = "none" /\ loadPc' = "chat"
       /\ \E i \in 1..Len(archives) :
              /\ archInst[i] # 0 /\ archInst[i] = mindMapData.inst
              /\ handleLoadFromArchive(i)

\* C20 as stated: a change of selectedNode or isFocusMode with the data
\* unchanged never runs the layout pass, and the layout pass is executed
\* exactly when the data tree changes.
C20_LayoutExactlyOnDataChange ==
    [][/\ (SelectStep \/ OtherCommitStep) => layoutPass' = "none"
       /\ DataStep => layoutPass' = "ran"]_vars

\* C20, amended: a change of selectedNode or isFocusMode with the data
\* unchanged never runs the layout pass; the layout effect is triggered
\* exactly when the data tree changes, and then executes the layout pass only
\* if the viewport has a size, returning at its guard otherwise.
C20_LayoutOnlyOnDataChange ==
    [][/\ (SelectStep \/ OtherCommitStep) => layoutPass' = "none"
       /\ DataStep =>
              layoutPass' = (IF viewport = "sized" THEN "ran" ELSE "skipped")]_vars

\* a node of the drawn tree is selected and highlighted, and the commit that
\* did it ran no layout
C20_Witness ==
    /\ mindMapData # NoMap
    /\ drawn = mindMapData
    /\ isFocusMode
    /\ selectedNode = Node(mindMapData, 2)
    /\ nodeRadius = <<"5", "8", "5", "5">>
    /\ layoutPass = "none"

(***************************************************************************)
(* Selection claims (Spec)                                                 *)
(***************************************************************************)
\* C21: in every reachable state selectedNode is null or a node of the tree
\* held in mindMapData.
C21_SelectionInTree ==
    \/ selectedNode = NoNode
    \/ mindMapData # NoMap /\ selectedNode \in TreeNodes(mindMapData)

\* C22: in every committed state, so after each of handleNodeSelect,
\* handleFileSelect, handleLoadFromArchive and the side panel's close has
\* completed, isFocusMode is true iff selectedNode is non-null; before the
\* first handler (and after a reload) both are off.
C22_FocusIffSelected ==
    /\ isFocusMode <=> selectedNode # NoNode
    /\ ~mounted => (~isFocusMode /\ selectedNode = NoNode)

\* a node was selected and every handler has completed
C22_Witness ==
    /\ genPc = "none"
    /\ loadPc = "none"
    /\ isFocusMode
    /\ selectedNode = Node(mindMapData, 3)

(***************************************************************************)
(* Recovery claims (SpecFair)                                              *)
(***************************************************************************)
\* C23: from a state with status 'error' the user gets to select another
\* file without reloading the application: the upload control is offered
\* again (a reload, which unmounts App, is no recovery and ends the matter).
C23_ErrorRecovers == (status = "error") ~> (UploadOffered \/ ~mounted)

====
